---- MODULE Spec2Model ----
(***************************************************************************)
(* Model of the HX711 driver (src/src/lib.rs): the driver object           *)
(* Hx711 { dout, pd_sck, mode }, its operations enable, disable, set_mode  *)
(* and retrieve, unfolded into one step per line access or delay request,  *)
(* and the pure conversion i24_to_i32.                                     *)
(*                                                                         *)
(* The two pins and the delay provider are the environment: every pin      *)
(* access may fail with an opaque error, the data line shows the level the *)
(* chip presents, and a delay request only records the requested time.     *)
(***************************************************************************)
EXTENDS Integers, Sequences, FiniteSets, TLC

\* ------------------------------------------------------------------ bounds

\* The conversions the chip may hold are the values within MaxSample of each
\* edge of the 24-bit range (0, 0x7FFFFF, 0x800000, 0xFFFFFF) and the vectors
\* of the unit test.
MaxSample == 1

\* The arguments i24_to_i32 is applied to in SpecConv lie within ConvSpan of
\* the same edges.
ConvSpan == 40

\* ------------------------------------------------------- program constants

\* for _ in 0..24
NBits == 24

\* delay.delay_us(60) in disable
DisableHoldUsShort == 60 - 1
DisableHoldUs == 60

\* delay.delay_us(1) in retrieve
PulseUsZero == 1 - 1
PulseUs == 1

\* enum Mode discriminants
ChAGain128 == 1
ChBGain32 == 2
ChBGain64 == 3

Modes == {ChAGain128, ChBGain32, ChBGain64}

\* Hx711::new: mode: Mode::ChAGain128
DefaultModeB == ChBGain32
DefaultMode == ChAGain128

\* MAX_VALUE = (1 << 23) - 1, MIN_VALUE = (1 << 23)
MAX_VALUE == 8388607
MIN_VALUE == 8388608

\* 0x80_0000 and 0x00FF_FFFF of i24_to_i32
SignBit24 == 8388608
Mask24 == 16777215

\* ------------------------------------------------------------ environment

Levels == {"low", "high"}

\* The opaque PINERR values a pin access can fail with.
PinErrs == {"E1", "E2"}

TestVectors == {1, 2, 16777215, 16777203}

Edges(span) ==
    (0 .. span) \cup ((SignBit24 - 1 - span) .. (SignBit24 + span))
                \cup ((Mask24 - span) .. Mask24)

Samples == Edges(MaxSample) \cup TestVectors

ConvInputs == Edges(ConvSpan) \cup TestVectors

\* ------------------------------------------------------- 32-bit arithmetic

RECURSIVE Pow2(_)
Pow2(n) == IF n = 0 THEN 1 ELSE 2 * Pow2(n - 1)

\* Bit n of a non-negative integer.
BitOf(x, n) == (x \div Pow2(n)) % 2

\* An i32 is handled as its two's-complement bit pattern, bit 0 .. bit 31.
ToWord(x) ==
    LET low == IF x >= 0 THEN x ELSE (x + 2147483647) + 1
    IN  [n \in 0 .. 31 |-> IF n = 31 THEN (IF x < 0 THEN 1 ELSE 0)
                                      ELSE BitOf(low, n)]

RECURSIVE SumBits(_, _)
SumBits(w, n) == IF n < 0 THEN 0 ELSE w[n] * Pow2(n) + SumBits(w, n - 1)

FromWord(w) ==
    IF w[31] = 1 THEN (SumBits(w, 30) - 2147483647) - 1 ELSE SumBits(w, 30)

OrWord(a, b) == [n \in 0 .. 31 |-> IF a[n] = 1 \/ b[n] = 1 THEN 1 ELSE 0]

NotWord(a) == [n \in 0 .. 31 |-> 1 - a[n]]

ShlWord(a) == [n \in 0 .. 31 |-> IF n = 0 THEN 0 ELSE a[n - 1]]

\* count <<= 1
ShlNone(c) == c
ShlTwo(c) == FromWord(ShlWord(ShlWord(ToWord(c))))
Shl1(c) == FromWord(ShlWord(ToWord(c)))

\* if self.dout.is_high()? { count += 1; }
AddBit(c, level) == IF level = "high" THEN c + 1 ELSE c

\* fn i24_to_i32(x: i32) -> i32
i24_to_i32_gt(x) ==
    IF x > SignBit24
        THEN FromWord(OrWord(ToWord(x), NotWord(ToWord(Mask24))))
        ELSE x
i24_to_i32(x) ==
    IF x >= SignBit24
        THEN FromWord(OrWord(ToWord(x), NotWord(ToWord(Mask24))))
        ELSE x

\* self.mode as u16
PulsesFixed(m) == 1
Pulses(m) == m

\* The level the chip shows on the data line for the idx-th shifted bit of
\* the conversion v: most significant bit first, a set bit as a high level.
DoutLevel(v, idx) == IF BitOf(v, NBits - 1 - idx) = 1 THEN "high" ELSE "low"

\* ------------------------------------------------------------------- state

VARIABLES
    mode,        \* Hx711.mode
    pd_sck,      \* level of the clock line
    op,          \* the operation in progress, "none" between calls
    arg,         \* the Mode argument of the latest set_mode call, 0 before the first
    pc,          \* position inside the operation in progress
    count,       \* retrieve: let mut count: i32
    i,           \* retrieve: index of the 0..24 loop
    n_reads,     \* retrieve: let n_reads
    k,           \* retrieve: index of the 0..n_reads loop
    rres,        \* value of the retrieve invocation that set_mode blocks on
    ret,         \* value returned by the last completed operation
    chip,        \* the conversion the chip shifts out
    bits,        \* levels sampled by the shift loop of this retrieve
    firstRead,   \* level seen by the first data read of this retrieve
    nHigh,       \* clock-high writes requested by this retrieve / call
    nLow,        \* clock-low writes requested by this retrieve / call
    nReads,      \* data-line reads requested by this retrieve / call
    nDelays,     \* delays requested by this retrieve / call
    nCycles,     \* complete high-then-low cycles of this retrieve / call
    callCycles,  \* complete high-then-low cycles of the whole call
    risen,       \* the last clock write of this call was a high that succeeded
    sinceEdge,   \* microseconds of delay requested since the last clock write
    lastWrite,   \* level of the last clock write that succeeded
    holding,     \* the last operation that wrote the clock was a successful disable
    wasHolding,  \* holding, as it was when the latest call was entered
    fault        \* the error of the pin access that failed in this call

vars == <<mode, pd_sck, op, arg, pc, count, i, n_reads, k, rres, ret, chip,
          bits, firstRead, nHigh, nLow, nReads, nDelays, nCycles, callCycles,
          risen, sinceEdge, lastWrite, holding, wasHolding, fault>>

locals == <<count, i, n_reads, k>>

NoRet == [op |-> "none", kind |-> "none", val |-> 0, err |-> ""]

NoRes == [kind |-> "none", val |-> 0, err |-> ""]

\* Hx711::new: mode is ChAGain128 and no pin is touched, so the clock line
\* keeps the level it had.
Init ==
    /\ mode = DefaultMode
    /\ pd_sck \in Levels
    /\ op = "none"
    /\ arg = 0
    /\ pc = "idle"
    /\ count = 0
    /\ i = 0
    /\ n_reads = 0
    /\ k = 0
    /\ rres = NoRes
    /\ ret = NoRet
    /\ chip = 0
    /\ bits = <<>>
    /\ firstRead = "none"
    /\ nHigh = 0
    /\ nLow = 0
    /\ nReads = 0
    /\ nDelays = 0
    /\ nCycles = 0
    /\ callCycles = 0
    /\ risen = FALSE
    /\ sinceEdge = 0
    /\ lastWrite = "none"
    /\ holding = FALSE
    /\ wasHolding = FALSE
    /\ fault = ""


\* The initial states of SpecConv: i24_to_i32 is about to be applied to count.
InitConv ==
    /\ mode = ChAGain128
    /\ pd_sck = "low"
    /\ op = "i24_to_i32"
    /\ arg = 0
    /\ pc = "conv"
    /\ count \in ConvInputs
    /\ i = 0
    /\ n_reads = 0
    /\ k = 0
    /\ rres = NoRes
    /\ ret = NoRet
    /\ chip = 0
    /\ bits = <<>>
    /\ firstRead = "none"
    /\ nHigh = 0
    /\ nLow = 0
    /\ nReads = 0
    /\ nDelays = 0
    /\ nCycles = 0
    /\ callCycles = 0
    /\ risen = FALSE
    /\ sinceEdge = 0
    /\ lastWrite = "none"
    /\ holding = FALSE
    /\ wasHolding = FALSE
    /\ fault = ""

\* ---------------------------------------------------------- pins and delay

\* OutputPin::set_high / set_low on pd_sck. A write that succeeds leaves the
\* line at level; one that fails leaves it at after, which is either level.
ClockWrite(level, ok, after) ==
    /\ pd_sck' = IF ok THEN level ELSE after
    /\ nHigh' = IF level = "high" THEN nHigh + 1 ELSE nHigh
    /\ nLow' = IF level = "low" THEN nLow + 1 ELSE nLow
    /\ nCycles' = IF ok /\ level = "low" /\ risen THEN nCycles + 1 ELSE nCycles
    /\ callCycles' = IF ok /\ level = "low" /\ risen THEN callCycles + 1
                                                      ELSE callCycles
    /\ risen' = (ok /\ level = "high")
    /\ lastWrite' = IF ok THEN level ELSE lastWrite
    /\ holding' = FALSE
    /\ sinceEdge' = 0
    /\ UNCHANGED nDelays

\* DelayUs::delay_us(us): the clock line is not touched.
DelayReq(us) ==
    /\ nDelays' = nDelays + 1
    /\ sinceEdge' = sinceEdge + us
    /\ UNCHANGED <<pd_sck, nHigh, nLow, nCycles, callCycles, risen, lastWrite,
                   holding>>

\* A step that neither writes the clock nor requests a delay.
NoClock ==
    UNCHANGED <<pd_sck, nHigh, nLow, nCycles, callCycles, risen, lastWrite,
                holding, sinceEdge, nDelays>>

\* InputPin::is_high on dout, answered (level) or failed (level = "none").
DataRead(level) ==
    /\ nReads' = nReads + 1
    /\ firstRead' = IF nReads = 0 /\ level # "none" THEN level ELSE firstRead

NoData == UNCHANGED <<nReads, firstRead, bits, chip>>

\* ------------------------------------------------------ calls and returns

\* A public operation is entered from the idle driver: the observations of
\* the previous call are cleared.
BeginCall(o, a, first) ==
    /\ pc = "idle"
    /\ op' = o
    /\ arg' = a
    /\ pc' = first
    /\ ret' = NoRet
    /\ rres' = NoRes
    /\ fault' = ""
    /\ chip' = 0
    /\ bits' = <<>>
    /\ firstRead' = "none"
    /\ nHigh' = 0
    /\ nLow' = 0
    /\ nReads' = 0
    /\ nDelays' = 0
    /\ nCycles' = 0
    /\ callCycles' = 0
    /\ risen' = FALSE
    /\ wasHolding' = holding
    /\ UNCHANGED <<pd_sck, sinceEdge, lastWrite, holding, locals>>

\* The operation in progress returns to its caller.
Return(kind, val, err) ==
    /\ op' = "none"
    /\ pc' = "idle"
    /\ ret' = [op |-> op, kind |-> kind, val |-> val, err |-> err]
    /\ count' = 0
    /\ i' = 0
    /\ n_reads' = 0
    /\ k' = 0

\* retrieve returns: to the caller, or to the block! loop of set_mode.
RetrieveReturn(kind, val, err) ==
    IF op = "set_mode"
        THEN /\ rres' = [kind |-> kind, val |-> val, err |-> err]
             /\ pc' = "sm_block"
             /\ count' = 0
             /\ i' = 0
             /\ n_reads' = 0
             /\ k' = 0
             /\ UNCHANGED <<op, ret>>
        ELSE /\ Return(kind, val, err)
             /\ UNCHANGED rres

\* The ? operator on a failed pin access inside retrieve.
RetrieveFail(e) ==
    /\ fault' = e
    /\ RetrieveReturn("Err", 0, e)

\* A step of retrieve that goes on to the position next.
Goto(next) ==
    /\ pc' = next
    /\ UNCHANGED <<op, ret, rres, fault>>

\* ------------------------------------------------------------------ enable

CallEnable ==
    /\ BeginCall("enable", arg, "e_low")
    /\ UNCHANGED mode

\* self.pd_sck.set_low()
EnableSetHigh ==
    /\ pc = "e_low"
    /\ \/ /\ ClockWrite("high", TRUE, "high")
          /\ Return("OkUnit", 0, "")
          /\ UNCHANGED fault
       \/ \E e \in PinErrs, after \in {pd_sck, "high"} :
             /\ ClockWrite("high", FALSE, after)
             /\ Return("Err", 0, e)
             /\ fault' = e
    /\ NoData
    /\ UNCHANGED <<mode, arg, wasHolding, rres>>
EnableSetLow ==
    /\ pc = "e_low"
    /\ \/ /\ ClockWrite("low", TRUE, "low")
          /\ Return("OkUnit", 0, "")
          /\ UNCHANGED fault
       \/ \E e \in PinErrs, after \in {pd_sck, "low"} :
             /\ ClockWrite("low", FALSE, after)
             /\ Return("Err", 0, e)
             /\ fault' = e
    /\ NoData
    /\ UNCHANGED <<mode, arg, wasHolding, rres>>

\* ----------------------------------------------------------------- disable

CallDisableResetsMode ==
    /\ BeginCall("disable", arg, "d_high")
    /\ mode' = ChAGain128
CallDisable ==
    /\ BeginCall("disable", arg, "d_high")
    /\ UNCHANGED mode

\* self.pd_sck.set_high()?
DisableSetHigh ==
    /\ pc = "d_high"
    /\ \/ /\ ClockWrite("high", TRUE, "high")
          /\ pc' = "d_hold"
          /\ UNCHANGED <<op, ret, fault, locals>>
       \/ \E e \in PinErrs, after \in {pd_sck, "high"} :
             /\ ClockWrite("high", FALSE, after)
             /\ Return("Err", 0, e)
             /\ fault' = e
    /\ NoData
    /\ UNCHANGED <<mode, arg, wasHolding, rres>>

\* delay.delay_us(60); Ok(())
DisableHold ==
    /\ pc = "d_hold"
    /\ nDelays' = nDelays + 1
    /\ sinceEdge' = sinceEdge + DisableHoldUs
    /\ holding' = TRUE
    /\ UNCHANGED <<pd_sck, nHigh, nLow, nCycles, callCycles, risen, lastWrite>>
    /\ Return("OkUnit", 0, "")
    /\ NoData
    /\ UNCHANGED <<mode, arg, wasHolding, rres, fault>>


\* ---------------------------------------------------------------- set_mode

\* self.mode = mode
StoreModeSkip(m) == mode' = mode
StoreMode(m) == mode' = m

\* set_mode(mode, delay): stores the mode, then enters retrieve.
CallSetMode(m) ==
    /\ BeginCall("set_mode", m, "r_low")
    /\ StoreMode(m)

\* block!(self.retrieve(delay)).map(|_| ()): WouldBlock polls again, an
\* error is returned, a sample is dropped and Ok(()) returned.
SetModeResetOnErr ==
    /\ pc = "sm_block"
    /\ \/ /\ rres.kind = "WouldBlock"
          /\ pc' = "r_low"
          /\ rres' = NoRes
          /\ chip' = 0
          /\ bits' = <<>>
          /\ firstRead' = "none"
          /\ nHigh' = 0
          /\ nLow' = 0
          /\ nReads' = 0
          /\ nDelays' = 0
          /\ nCycles' = 0
          /\ risen' = FALSE
          /\ UNCHANGED <<op, ret, locals, pd_sck, callCycles, sinceEdge,
                         lastWrite, holding, mode>>
       \/ /\ rres.kind = "Err"
          /\ Return("Err", 0, rres.err)
          /\ mode' = ChAGain128
          /\ NoClock
          /\ NoData
          /\ UNCHANGED rres
       \/ /\ rres.kind = "Ok"
          /\ Return("OkUnit", 0, "")
          /\ NoClock
          /\ NoData
          /\ UNCHANGED <<rres, mode>>
    /\ UNCHANGED <<arg, wasHolding, fault>>
SetModeNoBlock ==
    /\ pc = "sm_block"
    /\ \/ /\ rres.kind = "WouldBlock"
          /\ Return("WouldBlock", 0, "")
       \/ /\ rres.kind = "Err"
          /\ Return("Err", 0, rres.err)
       \/ /\ rres.kind = "Ok"
          /\ Return("OkUnit", 0, "")
    /\ NoClock
    /\ NoData
    /\ UNCHANGED <<mode, arg, wasHolding, fault, rres>>
SetModeBlock ==
    /\ pc = "sm_block"
    /\ \/ /\ rres.kind = "WouldBlock"
          /\ pc' = "r_low"
          /\ rres' = NoRes
          /\ chip' = 0
          /\ bits' = <<>>
          /\ firstRead' = "none"
          /\ nHigh' = 0
          /\ nLow' = 0
          /\ nReads' = 0
          /\ nDelays' = 0
          /\ nCycles' = 0
          /\ risen' = FALSE
          /\ UNCHANGED <<op, ret, locals, pd_sck, callCycles, sinceEdge,
                         lastWrite, holding>>
       \/ /\ rres.kind = "Err"
          /\ Return("Err", 0, rres.err)
          /\ NoClock
          /\ NoData
          /\ UNCHANGED rres
       \/ /\ rres.kind = "Ok"
          /\ Return("OkUnit", 0, "")
          /\ NoClock
          /\ NoData
          /\ UNCHANGED rres
    /\ UNCHANGED <<mode, arg, wasHolding, fault>>

\* ---------------------------------------------------------------- retrieve

CallRetrieve ==
    /\ BeginCall("retrieve", arg, "r_low")
    /\ UNCHANGED mode

\* if self.dout.is_high()? { return Err(nb::Error::WouldBlock); }
NotReadyInverted(level) == level = "low"
NotReady(level) == level = "high"

\* self.pd_sck.set_low()?
RetrieveSkipSetLow ==
    /\ pc = "r_low"
    /\ Goto("r_ready")
    /\ NoClock
    /\ NoData
    /\ UNCHANGED <<mode, arg, wasHolding, locals>>
RetrieveSetLow ==
    /\ pc = "r_low"
    /\ \/ /\ ClockWrite("low", TRUE, "low")
          /\ Goto("r_ready")
          /\ UNCHANGED locals
       \/ \E e \in PinErrs, after \in {pd_sck, "low"} :
             /\ ClockWrite("low", FALSE, after)
             /\ RetrieveFail(e)
    /\ NoData
    /\ UNCHANGED <<mode, arg, wasHolding>>

\* self.dout.is_high()? answered with level: WouldBlock if the conversion is
\* not ready, else the chip has a conversion to shift out.
RetrieveReadyBackoff(level) ==
    /\ pc = "r_ready"
    /\ DataRead(level)
    /\ IF NotReady(level)
          THEN /\ RetrieveReturn("WouldBlock", 0, "")
               /\ DelayReq(PulseUs)
               /\ UNCHANGED <<chip, fault>>
          ELSE /\ Goto("r_setup")
               /\ NoClock
               /\ chip' \in Samples
               /\ UNCHANGED locals
    /\ UNCHANGED <<mode, arg, wasHolding, bits>>
RetrieveReady(level) ==
    /\ pc = "r_ready"
    /\ DataRead(level)
    /\ IF NotReady(level)
          THEN /\ RetrieveReturn("WouldBlock", 0, "")
               /\ UNCHANGED chip
          ELSE /\ Goto("r_setup")
               /\ chip' \in Samples
               /\ UNCHANGED locals
    /\ NoClock
    /\ UNCHANGED <<mode, arg, wasHolding, bits>>
    /\ IF NotReady(level) THEN UNCHANGED fault ELSE TRUE

\* self.dout.is_high()? failed
RetrieveReadyFail ==
    /\ pc = "r_ready"
    /\ \E e \in PinErrs : RetrieveFail(e)
    /\ DataRead("none")
    /\ NoClock
    /\ UNCHANGED <<mode, arg, wasHolding, bits, chip>>

\* delay.delay_us(1); let mut count: i32 = 0; for _ in 0..24
RetrieveSetup ==
    /\ pc = "r_setup"
    /\ DelayReq(PulseUs)
    /\ count' = 0
    /\ i' = 0
    /\ Goto(IF 0 < NBits THEN "s_high" ELSE "t_mode")
    /\ NoData
    /\ UNCHANGED <<mode, arg, wasHolding, n_reads, k>>

\* count <<= 1; self.pd_sck.set_high()?
ShiftSetHigh ==
    /\ pc = "s_high"
    /\ \/ /\ ClockWrite("high", TRUE, "high")
          /\ Goto("s_dly_high")
          /\ count' = Shl1(count)
          /\ UNCHANGED <<i, n_reads, k>>
       \/ \E e \in PinErrs, after \in {pd_sck, "high"} :
             /\ ClockWrite("high", FALSE, after)
             /\ RetrieveFail(e)
    /\ NoData
    /\ UNCHANGED <<mode, arg, wasHolding>>

\* delay.delay_us(1)
ShiftDelayHigh ==
    /\ pc = "s_dly_high"
    /\ DelayReq(PulseUs)
    /\ Goto("s_read")
    /\ NoData
    /\ UNCHANGED <<mode, arg, wasHolding, locals>>

\* if self.dout.is_high()? { count += 1; }
ShiftReadIgnoreFault ==
    /\ pc = "s_read"
    /\ \/ LET level == DoutLevel(chip, i)
          IN  /\ DataRead(level)
              /\ bits' = Append(bits, level)
              /\ count' = AddBit(count, level)
              /\ Goto("s_low")
              /\ UNCHANGED <<i, n_reads, k>>
       \/ /\ DataRead("none")
          /\ \E e \in PinErrs : fault' = e
          /\ pc' = "s_low"
          /\ bits' = Append(bits, "low")
          /\ UNCHANGED <<op, ret, rres, locals>>
    /\ NoClock
    /\ UNCHANGED <<mode, arg, wasHolding, chip>>
ShiftRead ==
    /\ pc = "s_read"
    /\ \/ LET level == DoutLevel(chip, i)
          IN  /\ DataRead(level)
              /\ bits' = Append(bits, level)
              /\ count' = AddBit(count, level)
              /\ Goto("s_low")
              /\ UNCHANGED <<i, n_reads, k>>
       \/ /\ DataRead("none")
          /\ \E e \in PinErrs : RetrieveFail(e)
          /\ UNCHANGED bits
    /\ NoClock
    /\ UNCHANGED <<mode, arg, wasHolding, chip>>

\* self.pd_sck.set_low()?
ShiftSetLow ==
    /\ pc = "s_low"
    /\ \/ /\ ClockWrite("low", TRUE, "low")
          /\ Goto("s_dly_low")
          /\ UNCHANGED locals
       \/ \E e \in PinErrs, after \in {pd_sck, "low"} :
             /\ ClockWrite("low", FALSE, after)
             /\ RetrieveFail(e)
    /\ NoData
    /\ UNCHANGED <<mode, arg, wasHolding>>

\* delay.delay_us(1); end of one pass of the 0..24 loop
ShiftDelayLow ==
    /\ pc = "s_dly_low"
    /\ DelayReq(PulseUs)
    /\ i' = i + 1
    /\ Goto(IF i + 1 < NBits THEN "s_high" ELSE "t_mode")
    /\ NoData
    /\ UNCHANGED <<mode, arg, wasHolding, count, n_reads, k>>

\* let n_reads = self.mode as u16; for _ in 0..n_reads
TrailBegin ==
    /\ pc = "t_mode"
    /\ n_reads' = Pulses(mode)
    /\ k' = 0
    /\ Goto(IF 0 < Pulses(mode) THEN "t_high" ELSE "r_ret")
    /\ NoClock
    /\ NoData
    /\ UNCHANGED <<mode, arg, wasHolding, count, i>>

\* self.pd_sck.set_high()?
TrailSetHigh ==
    /\ pc = "t_high"
    /\ \/ /\ ClockWrite("high", TRUE, "high")
          /\ Goto("t_dly_high")
          /\ UNCHANGED locals
       \/ \E e \in PinErrs, after \in {pd_sck, "high"} :
             /\ ClockWrite("high", FALSE, after)
             /\ RetrieveFail(e)
    /\ NoData
    /\ UNCHANGED <<mode, arg, wasHolding>>

\* delay.delay_us(1)
TrailDelayHigh ==
    /\ pc = "t_dly_high"
    /\ DelayReq(PulseUs)
    /\ Goto("t_low")
    /\ NoData
    /\ UNCHANGED <<mode, arg, wasHolding, locals>>

\* self.pd_sck.set_low()?
TrailSetLowAsHigh ==
    /\ pc = "t_low"
    /\ \/ /\ ClockWrite("high", TRUE, "high")
          /\ Goto("t_dly_low")
          /\ UNCHANGED locals
       \/ \E e \in PinErrs, after \in {pd_sck, "high"} :
             /\ ClockWrite("high", FALSE, after)
             /\ RetrieveFail(e)
    /\ NoData
    /\ UNCHANGED <<mode, arg, wasHolding>>
TrailSetLow ==
    /\ pc = "t_low"
    /\ \/ /\ ClockWrite("low", TRUE, "low")
          /\ Goto("t_dly_low")
          /\ UNCHANGED locals
       \/ \E e \in PinErrs, after \in {pd_sck, "low"} :
             /\ ClockWrite("low", FALSE, after)
             /\ RetrieveFail(e)
    /\ NoData
    /\ UNCHANGED <<mode, arg, wasHolding>>

\* delay.delay_us(1); end of one pass of the 0..n_reads loop
TrailDelayLow ==
    /\ pc = "t_dly_low"
    /\ DelayReq(PulseUs)
    /\ k' = k + 1
    /\ Goto(IF k + 1 < n_reads THEN "t_high" ELSE "r_ret")
    /\ NoData
    /\ UNCHANGED <<mode, arg, wasHolding, count, i, n_reads>>

\* Ok(i24_to_i32(count))
RetrieveOk ==
    /\ pc = "r_ret"
    /\ RetrieveReturn("Ok", i24_to_i32(count), "")
    /\ NoClock
    /\ NoData
    /\ UNCHANGED <<mode, arg, wasHolding, fault>>

\* -------------------------------------------------------------- i24_to_i32

\* One application of i24_to_i32 to the argument held in count.
Convert ==
    /\ pc = "conv"
    /\ pc' = "conv_done"
    /\ ret' = [op |-> "i24_to_i32", kind |-> "Ok", val |-> i24_to_i32(count),
               err |-> ""]
    /\ NoClock
    /\ NoData
    /\ UNCHANGED <<mode, op, arg, wasHolding, locals, rres, fault>>

\* ---------------------------------------------------------- specifications

Next ==
    \/ CallEnable
    \/ EnableSetLow
    \/ CallDisable
    \/ DisableSetHigh
    \/ DisableHold
    \/ \E m \in Modes : CallSetMode(m)
    \/ SetModeBlock
    \/ CallRetrieve
    \/ RetrieveSetLow
    \/ \E level \in Levels : RetrieveReady(level)
    \/ RetrieveReadyFail
    \/ RetrieveSetup
    \/ ShiftSetHigh
    \/ ShiftDelayHigh
    \/ ShiftRead
    \/ ShiftSetLow
    \/ ShiftDelayLow
    \/ TrailBegin
    \/ TrailSetHigh
    \/ TrailDelayHigh
    \/ TrailSetLow
    \/ TrailDelayLow
    \/ RetrieveOk

Spec == Init /\ [][Next]_vars

\* The driver never stops in the middle of an operation or between calls,
\* and a chip that is polled again and again is ready at some poll.
SpecLive ==
    /\ Init
    /\ [][Next]_vars
    /\ WF_vars(Next)
    /\ SF_vars(RetrieveReady("low"))

\* The driver never stops in the middle of an operation or between calls.
SpecProgress ==
    /\ Init
    /\ [][Next]_vars
    /\ WF_vars(Next)

NextConv == Convert

SpecConv == InitConv /\ [][NextConv]_vars


\* ------------------------------------------------------------------ claims

\* The value a 24-level sample stands for when its first level is bit 23
\* and its last level is bit 0.
RECURSIVE MsbFirst(_)
MsbFirst(ls) ==
    IF ls = <<>> THEN 0
    ELSE (IF Head(ls) = "high" THEN Pow2(Len(ls) - 1) ELSE 0) + MsbFirst(Tail(ls))

\* The two's-complement reading of a 24-bit value.
SignExtend24(v) == IF v >= 8388608 THEN v - 16777216 ELSE v

\* The number of complete clock cycles of a retrieval under Mode m.
CyclesOf(m) ==
    CASE m = ChAGain128 -> 25
      [] m = ChBGain32 -> 26
      [] m = ChBGain64 -> 27

RetrieveReturned(kind) == ret.op = "retrieve" /\ ret.kind = kind

\* C1: a retrieve call in which no pin access fails returns WouldBlock if and
\* only if its first data-line read, which is made with the clock line driven
\* low, sees a high level; if that read sees a low level the call returns Ok
\* with a sample of 24 levels. This holds under every Mode and after any
\* sequence of earlier operations.
C1_WouldBlockIffFirstReadHigh ==
    /\ pc = "r_ready" => pd_sck = "low"
    /\ (ret.op = "retrieve" /\ ret.kind # "Err") =>
          /\ (ret.kind = "WouldBlock") <=> (firstRead = "high")
          /\ (firstRead = "low") => (ret.kind = "Ok" /\ Len(bits) = 24)

C1_Witness ==
    /\ RetrieveReturned("WouldBlock")
    /\ firstRead = "high"
    /\ mode = ChBGain32
    /\ lastWrite = "low"

\* C2: a successful retrieve returns the sign extension of the 24 levels it
\* sampled in the shift loop, read most significant bit first, whatever the
\* Mode; the pattern 0xFFFFF3 gives Ok(-13).
C2_SampleIsSignExtendedMsbFirst ==
    RetrieveReturned("Ok") =>
        /\ Len(bits) = 24
        /\ ret.val = SignExtend24(MsbFirst(bits))
        /\ MsbFirst(bits) = 16777203 => ret.val = -13

C2_Witness ==
    /\ RetrieveReturned("Ok")
    /\ MsbFirst(bits) = 16777203
    /\ ret.val = -13
    /\ mode = ChBGain64
    /\ nCycles = 27

\* C3: a successful retrieve issues exactly 25, 26 or 27 complete high-then-low
\* clock cycles under ChAGain128, the 2-pulse Mode and the 3-pulse Mode, and
\* no other clock-high write; a retrieve that returns WouldBlock issues no
\* clock-high write.
C3_CycleCount ==
    /\ RetrieveReturned("Ok") => (nCycles = CyclesOf(mode) /\ nHigh = nCycles)
    /\ RetrieveReturned("WouldBlock") => (nHigh = 0 /\ nCycles = 0)

C3_Witness ==
    /\ RetrieveReturned("Ok")
    /\ mode = ChBGain32
    /\ nCycles = 26
    /\ nHigh = 26

\* C4: whenever no driver operation is in progress, the clock line is low
\* unless the last operation that wrote the clock was a successful disable.
C4_ClockLowWhenIdle ==
    pc = "idle" => (pd_sck = "low" \/ holding)

\* C5: after a successful retrieve the last write made to the clock line is a
\* low write and the clock line is low, under every Mode.
C5_ClockLowAfterRetrieve ==
    RetrieveReturned("Ok") => (lastWrite = "low" /\ pd_sck = "low")

C5_Witness ==
    /\ RetrieveReturned("Ok")
    /\ mode = ChAGain128
    /\ lastWrite = "low"
    /\ pd_sck = "low"
    /\ nLow = 26

\* C6: when set_mode(m) returns Ok the recorded Mode is m, the call has issued
\* exactly 24 + pulses(m) complete clock cycles, and the sample is not
\* returned.
C6_SetModeStoresAndRetrieves ==
    (ret.op = "set_mode" /\ ret.kind \in {"Ok", "OkUnit"}) =>
        /\ mode = arg
        /\ callCycles = CyclesOf(arg)
        /\ ret.kind = "OkUnit"
        /\ ret.val = 0

C6_Witness ==
    /\ ret.op = "set_mode"
    /\ ret.kind = "OkUnit"
    /\ arg = ChBGain64
    /\ mode = ChBGain64
    /\ callCycles = 27
    /\ rres.val = -13


\* C7: set_mode polls until the chip is ready. A readiness poll that finds
\* the data line high, with no pin access failed, is followed by another poll
\* and not by a return; a set_mode call whose chip is ready at some poll
\* returns, with Ok whenever no pin access failed; it returns an error only
\* when a pin access of the retrieval failed, that error, and it never
\* returns WouldBlock.
C7_SetModePollsUntilReady ==
    /\ [][(pc = "sm_block" /\ rres.kind = "WouldBlock") =>
              (op' = "set_mode" /\ pc' = "r_low" /\ ret' = ret)]_vars
    /\ [](ret.op = "set_mode" =>
              /\ ret.kind \in {"OkUnit", "Err"}
              /\ (ret.kind = "Err") <=> (fault # "")
              /\ (ret.kind = "Err") => (ret.err = fault))
    /\ (op = "set_mode") ~> (ret.op = "set_mode")

C7_Witness ==
    /\ op = "set_mode"
    /\ pc = "sm_block"
    /\ rres.kind = "WouldBlock"
    /\ firstRead = "high"
    /\ pd_sck = "low"

\* C8: a pin access that fails at any step of retrieve ends that retrieve in
\* the same step: the error of the failed access is what it returns, the
\* call makes no further pin access or delay request, no sample is returned,
\* and the recorded Mode is unchanged.
C8_FaultAbortsRetrieve ==
    [][(op \in {"retrieve", "set_mode"} /\ fault = "" /\ fault' # "") =>
          /\ mode' = mode
          /\ op = "retrieve" =>
                /\ pc' = "idle"
                /\ ret' = [op |-> "retrieve", kind |-> "Err", val |-> 0,
                           err |-> fault']
          /\ op = "set_mode" =>
                /\ pc' = "sm_block"
                /\ rres' = [kind |-> "Err", val |-> 0, err |-> fault']]_vars

C8_Witness ==
    /\ RetrieveReturned("Err")
    /\ ret.err = "E2"
    /\ fault = "E2"
    /\ Len(bits) = 5
    /\ nReads = 7
    /\ pd_sck = "high"

\* C9: disable drives the clock line high and then requests a delay of at
\* least 60 microseconds before it returns Ok, with no clock-low write in
\* between; if the high write fails that error is returned, and Ok is never
\* returned without the hold having been requested.
C9_DisableHoldsHigh ==
    ret.op = "disable" =>
        /\ ret.kind \in {"OkUnit", "Err"}
        /\ (ret.kind = "OkUnit") =>
              /\ pd_sck = "high"
              /\ lastWrite = "high"
              /\ nHigh = 1
              /\ nLow = 0
              /\ nDelays = 1
              /\ sinceEdge >= 60
              /\ fault = ""
        /\ (ret.kind = "Err") => (fault # "" /\ ret.err = fault /\ nDelays = 0)
        /\ (fault # "") => (ret.kind = "Err")

C9_Witness ==
    /\ ret.op = "disable"
    /\ ret.kind = "OkUnit"
    /\ pd_sck = "high"
    /\ sinceEdge = 60
    /\ holding

\* C10: i24_to_i32 is defined on all of 0 .. 0xFFFFFF: it returns x for x in
\* 0 .. 0x7FFFFF and x - 0x1000000 for x in 0x800000 .. 0xFFFFFF, so its
\* values lie in -8388608 .. 8388607 (1 -> 1, 2 -> 2, 0xFFFFFF -> -1,
\* 0xFFFFF3 -> -13).
C10_SignExtension ==
    (pc = "conv_done") =>
        /\ ret.kind = "Ok"
        /\ (count \in 0 .. 8388607) => (ret.val = count)
        /\ (count \in 8388608 .. 16777215) => (ret.val = count - 16777216)
        /\ ret.val \in -8388608 .. 8388607
        /\ (count = 1) => (ret.val = 1)
        /\ (count = 2) => (ret.val = 2)
        /\ (count = 16777215) => (ret.val = -1)
        /\ (count = 16777203) => (ret.val = -13)

C10_Witness ==
    /\ pc = "conv_done"
    /\ count = 8388608
    /\ ret.val = -8388608


\* The driver is idle and no operation has been called since new.
JustConstructed == pc = "idle" /\ ret = NoRet

InRetrieve == op \in {"retrieve", "set_mode"}

\* C11: immediately after new returns the clock line is low, whatever level
\* it had before construction.
C11_ClockLowAfterNew ==
    JustConstructed => pd_sck = "low"

\* C12: new records Mode ChAGain128 and makes no pin access, so every
\* successful retrieve made before the first set_mode call, the first one
\* included, issues exactly 25 complete clock cycles.
C12_NewDefaultsToChAGain128 ==
    /\ JustConstructed =>
          /\ mode = 1
          /\ lastWrite = "none"
          /\ nHigh = 0 /\ nLow = 0 /\ nReads = 0 /\ nDelays = 0 /\ nCycles = 0
    /\ (RetrieveReturned("Ok") /\ arg = 0) => (nCycles = 25 /\ nHigh = 25)

C12_Witness ==
    /\ RetrieveReturned("Ok")
    /\ arg = 0
    /\ nCycles = 25
    /\ ret.val = -1

\* C13: enable makes exactly one pin access, a clock-low write: no data
\* read, no delay request, the recorded Mode unchanged; it returns an error
\* if and only if that write fails; an enable that succeeds after a
\* successful disable leaves the clock line low.
C13_EnableWritesLowOnce ==
    /\ [](ret.op = "enable" =>
              /\ nLow = 1 /\ nHigh = 0 /\ nReads = 0 /\ nDelays = 0
              /\ ret.kind \in {"OkUnit", "Err"}
              /\ (ret.kind = "Err") <=> (fault # "")
              /\ (ret.kind = "Err") => (ret.err = fault)
              /\ (ret.kind = "OkUnit") =>
                    (pd_sck = "low" /\ lastWrite = "low" /\ ~holding))
    /\ [][(op = "enable" \/ op' = "enable") => mode' = mode]_vars

C13_Witness ==
    /\ ret.op = "enable"
    /\ ret.kind = "OkUnit"
    /\ wasHolding
    /\ pd_sck = "low"
    /\ mode = ChBGain64

\* C14: every value returned by a successful retrieve lies between MIN_VALUE
\* and MAX_VALUE.
C14_ValueWithinMinMax ==
    RetrieveReturned("Ok") => (MIN_VALUE <= ret.val /\ ret.val <= MAX_VALUE)

\* C15: the recorded Mode changes only when set_mode is called, to the
\* Mode passed; enable, disable and retrieve leave it as it is, so every
\* successful retrieve after a set_mode(m) emits pulses(m) trailing pulses
\* until the next set_mode, and the pulse count is always 1, 2 or 3.
C15_ModeChangesOnlyInSetMode ==
    /\ [][(mode' # mode) =>
              (pc = "idle" /\ op' = "set_mode" /\ mode' = arg')]_vars
    /\ [](mode \in {1, 2, 3})
    /\ [](pc \in {"t_high", "t_dly_high", "t_low", "t_dly_low"} =>
              n_reads \in {1, 2, 3})
    /\ []((RetrieveReturned("Ok") /\ arg # 0) =>
              (mode = arg /\ nCycles - 24 = arg))

C15_Witness ==
    /\ RetrieveReturned("Ok")
    /\ arg = ChBGain32
    /\ mode = ChBGain32
    /\ nCycles = 26
    /\ wasHolding

\* C16: in a retrieve the readiness read is made with the clock low; every
\* sample read is made with the clock high, after the rising edge and a
\* delay of at least 1 microsecond; every clock-high write comes at least
\* 1 microsecond of delay after the preceding clock-low write and every
\* later clock-low write at least 1 microsecond after the preceding
\* clock-high write; the trailing pulses read no data, so a successful
\* retrieve makes exactly 25 data reads.
C16_LineOperationsOrdered ==
    /\ [][InRetrieve =>
              /\ (nReads' = nReads + 1 /\ nReads = 0) =>
                    (pd_sck = "low" /\ lastWrite = "low" /\ nHigh = 0)
              /\ (nReads' = nReads + 1 /\ nReads > 0) =>
                    (pd_sck = "high" /\ risen /\ sinceEdge >= 1)
              /\ (nHigh' = nHigh + 1) =>
                    (pd_sck = "low" /\ lastWrite = "low" /\ sinceEdge >= 1)
              /\ (nLow' = nLow + 1 /\ nLow > 0) =>
                    (pd_sck = "high" /\ risen /\ sinceEdge >= 1)]_vars
    /\ [](pc \in {"t_mode", "t_high", "t_dly_high", "t_low", "t_dly_low", "r_ret"}
              => nReads = 25)
    /\ [](RetrieveReturned("Ok") =>
              (nReads = 25 /\ Len(bits) = 24 /\ sinceEdge >= 1))

C16_Witness ==
    /\ RetrieveReturned("Ok")
    /\ nReads = 25
    /\ nDelays = 55
    /\ mode = ChBGain64
    /\ sinceEdge = 1

\* C17: retrieve never blocks: every call returns, after at most 80 pin
\* accesses, and a call that finds the data line high makes exactly one
\* clock write and one data read, requests no delay and does not retry
\* before it returns WouldBlock.
C17_RetrieveNeverBlocks ==
    /\ []((op = "retrieve" \/ ret.op = "retrieve") =>
              nHigh + nLow + nReads <= 80)
    /\ [](RetrieveReturned("WouldBlock") =>
              (nLow = 1 /\ nHigh = 0 /\ nReads = 1 /\ nDelays = 0))
    /\ (op = "retrieve") ~> (ret.op = "retrieve")

C17_Witness ==
    /\ RetrieveReturned("Ok")
    /\ nHigh + nLow + nReads = 80
    /\ nLow = 28

\* C18: set_mode stores the new Mode before the retrieval and does not roll
\* it back: when set_mode(m) returns a pin error the recorded Mode is m
\* although fewer than 24 + pulses(m) cycles were issued, and a later
\* successful retrieve emits pulses(m) trailing pulses.
C18_SetModeKeepsModeOnFault ==
    /\ (ret.op = "set_mode" /\ ret.kind = "Err") =>
          (mode = arg /\ callCycles < 24 + arg /\ fault # "")
    /\ (op = "set_mode") => mode = arg
    /\ (RetrieveReturned("Ok") /\ arg # 0) => nCycles = 24 + arg

C18_Witness ==
    /\ ret.op = "set_mode"
    /\ ret.kind = "Err"
    /\ arg = ChBGain64
    /\ mode = ChBGain64
    /\ callCycles = 26

C20_AccumulatorWithin24Bits ==
    /\ count \in 0 .. 16777215
    /\ InRetrieve =>
          /\ (pc = "s_high") => (i \in 0 .. 23 /\ count <= Pow2(i) - 1)
          /\ (pc \in {"s_dly_high", "s_read"}) => count <= Pow2(i + 1) - 2
          /\ (pc \in {"s_low", "s_dly_low"}) => count <= Pow2(i + 1) - 1
          /\ (pc \in {"t_mode", "t_high", "t_dly_high", "t_low", "t_dly_low",
                      "r_ret"}) => i = 24

C20_Witness ==
    /\ pc = "r_ret"
    /\ i = 24
    /\ count = 16777215

====
